---- MODULE Spec2Model ----
(***************************************************************************)
(* Geofenced, face-verified attendance tracker: the live-session protocol  *)
(* of App.tsx, StudentDashboard (src/unnamed/part_000), LecturerDashboard  *)
(* (src/components/AttendanceListPage.tsx, lines 230-881), AdminDashboard  *)
(* and the useCamera hook.                                                 *)
(*                                                                         *)
(* The whole application state lives in one browser page: App owns the     *)
(* ledgers and the two sessions, exactly one user is logged in at a time,  *)
(* and a dashboard component (with its status, error and camera state) is  *)
(* created when its page is shown and destroyed when the page changes.     *)
(* An async handler that is suspended in an await keeps the props and the  *)
(* state of the render it was started from (its closure); when its         *)
(* component has been destroyed meanwhile, its component-state setters do  *)
(* nothing while the App-level setters and localStorage still work.        *)
(***************************************************************************)
EXTENDS Integers, Sequences, FiniteSets, TLC

VARIABLES
    currentUser,        \* App.currentUser (NULL = logged out)
    currentPage,        \* App.currentPage
    attendance,         \* App.attendance: the student ledger
    lecturerAttendance, \* App.lecturerAttendance: the lecturer ledger
    studentSession,     \* App.studentSession
    facultySession,     \* App.facultySession
    attendanceQueue,    \* localStorage['attendanceQueue']
    onLine,             \* navigator.onLine
    today,              \* calendar day of new Date()
    sd,                 \* state of the StudentDashboard instance
    ld,                 \* state of the LecturerDashboard instance
    tasks,              \* suspended async handlers (awaits in flight)
    ev                  \* the handler step taken last and the setStatus calls it made

vars == <<currentUser, currentPage, attendance, lecturerAttendance, studentSession,
          facultySession, attendanceQueue, onLine, today, sd, ld, tasks, ev>>

NULL == "null"

\* An optional value (T | null): the empty sequence is null, <<v>> holds v.
None == <<>>
Some(v) == <<v>>
Val(o) == o[1]
Option(S) == {None} \cup {Some(v) : v \in S}

----------------------------------------------------------------------------
(* Bounds of the model *)

MaxPos == 2          \* positions lie on a line: 0..MaxPos
MaxDay == 1          \* calendar days 0..MaxDay
MaxRecords == 2      \* records stored, queued or still to be built
MaxTasks == 1        \* suspended handlers at one time
MaxPending == 2      \* suspended handlers at one time, concurrent submissions
MaxAppends == 3      \* records stored, queued or to be built, concurrent submissions

----------------------------------------------------------------------------
(* Seed data *)

Students == {"s1", "s2"}
Lecturers == {"l1"}
Admins == {"admin-1"}
Users == Students \cup Lecturers \cup Admins

Courses == {"c1", "c2"}
Units == {"u1", "u2"}

UnitCourse(u) == IF u = "u1" THEN "c1" ELSE "c2"
StudentCourse(s) == "c1"

Role(u) == IF u \in Students THEN "STUDENT"
           ELSE IF u \in Lecturers THEN "LECTURER" ELSE "ADMIN"

Positions == 0..MaxPos
Days == 0..MaxDay

MinRadius == 10
MaxRadius == 5000
RadiusInputs == {5, 80, 5001}       \* radius state of LecturerDashboard
AdminRadiusInputs == {100}           \* radius state of AdminDashboard
\* location state of LecturerDashboard: unit u1 is taught at position 0, the
\* other unit at position MaxPos
VenueOf(unit) == IF unit = "u1" THEN 0 ELSE MaxPos
FacultySessionCenters == {0}         \* location state of AdminDashboard

Abs(x) == IF x < 0 THEN 0 - x ELSE x

\* calculateDistance(lat1, lon1, lat2, lon2) of utils/geolocation: the
\* great-circle distance in meters.  Positions are points of a line, 80 m
\* apart.
calculateDistance(p, q) == 80 * Abs(p - q)

----------------------------------------------------------------------------
(* Component state *)

\* useCamera: useState initial value (no stream, no error)
NoCamera == [stream |-> FALSE, error |-> NULL, isCameraOn |-> FALSE, isVideoReady |-> FALSE]

\* useState initial value of useCamera
InitialCameraState == NoCamera

\* useState initial values of StudentDashboard / LecturerDashboard; srcObject
\* tells whether the video element of the CAPTURING screen, which exists only
\* while that screen is shown, has a stream attached.
FreshStudentDashboard ==
    [status |-> "READY", errorMessage |-> NULL, isDistanceError |-> FALSE,
     studentLocation |-> None, cameraState |-> NoCamera, srcObject |-> FALSE]

FreshLecturerDashboard ==
    [status |-> "READY", errorMessage |-> NULL, isDistanceError |-> FALSE,
     lecturerLocation |-> None, cameraState |-> NoCamera, srcObject |-> FALSE]

StudentMounted == currentPage = "STUDENT_DASHBOARD"
LecturerMounted == currentPage = "LECTURER_DASHBOARD"

\* ev: op is the handler step, who the subject, res its outcome, live whether
\* the component that started it still exists, trail the setStatus calls made.
NoEvent == [op |-> "none", who |-> NULL, res |-> NULL, live |-> FALSE, trail |-> <<>>]
Event(op, who, res, live, trail) ==
    [op |-> op, who |-> who, res |-> res, live |-> live, trail |-> trail]

\* A suspended async handler: the await it is waiting on and its closure.
Task(kind, who, sess, loc, orphan) ==
    [kind |-> kind, who |-> who, sess |-> sess, loc |-> loc, orphan |-> orphan]

\* The component that started the handlers is destroyed: they keep running,
\* their component-state setters no longer have an effect.
Orphaned(ts) == [i \in DOMAIN ts |-> [ts[i] EXCEPT !.orphan = TRUE]]

RemoveAt(s, i) == [j \in 1..(Len(s) - 1) |-> IF j < i THEN s[j] ELSE s[j + 1]]

Init ==
    /\ currentUser = NULL
    /\ currentPage = "LOGIN"
    /\ attendance = <<>>
    /\ lecturerAttendance = <<>>
    /\ studentSession = None
    /\ facultySession = None
    /\ attendanceQueue = <<>>
    /\ onLine = TRUE
    /\ today = 0
    /\ sd = FreshStudentDashboard
    /\ ld = FreshLecturerDashboard
    /\ tasks = <<>>
    /\ ev = NoEvent

----------------------------------------------------------------------------
(* OfflineQueue: StudentDashboard.processQueue *)

\* variant: navigator.onLine is not consulted
processQueueFlushes_IgnoresNetwork(queue, online) == Len(queue) > 0

processQueueFlushes(queue, online) == Len(queue) > 0 /\ online

\* variant: only the oldest queued record is appended
processQueueLedger_HeadOnly(prev, queue, online) ==
    IF processQueueFlushes(queue, online) THEN Append(prev, Head(queue)) ELSE prev

\* variant: the flush sets the ledger to the queue instead of appending to it
processQueueLedger_Overwrites(prev, queue, online) ==
    IF processQueueFlushes(queue, online) THEN queue ELSE prev

processQueueLedger(prev, queue, online) ==
    IF processQueueFlushes(queue, online) THEN prev \o queue ELSE prev

\* variant: the stored queue is not removed after the append
processQueueStorage_KeepsQueue(queue, online) == queue

processQueueStorage(queue, online) ==
    IF processQueueFlushes(queue, online) THEN <<>> ELSE queue

\* what a run of processQueue did
processQueueResult(queue, online) ==
    IF processQueueFlushes(queue, online) THEN "flushed" ELSE "skipped"

----------------------------------------------------------------------------
(* App: login, logout, page changes, the clock and the network *)

\* App.tsx useEffect on [currentUser, studentSession, facultySession]
PageFor(u, ss, fs) ==
    IF Role(u) = "ADMIN"
    THEN (IF fs # None THEN "TAKE_LECTURER_ATTENDANCE" ELSE "ADMIN_DASHBOARD")
    ELSE IF Role(u) = "LECTURER"
    THEN (IF ss # None THEN "TAKE_ATTENDANCE" ELSE "LECTURER_DASHBOARD")
    ELSE "STUDENT_DASHBOARD"

\* LoginPage.handleSubmit with valid credentials; the StudentDashboard
\* mount effect runs processQueue once.
Login(u) ==
    /\ currentUser = NULL
    /\ currentUser' = u
    /\ currentPage' = PageFor(u, studentSession, facultySession)
    /\ IF Role(u) = "STUDENT"
       THEN /\ attendance' = processQueueLedger(attendance, attendanceQueue, onLine)
            /\ attendanceQueue' = processQueueStorage(attendanceQueue, onLine)
            /\ ev' = Event("processQueue", u, processQueueResult(attendanceQueue, onLine),
                           TRUE, <<>>)
       ELSE /\ UNCHANGED <<attendance, attendanceQueue>>
            /\ ev' = NoEvent
    /\ sd' = FreshStudentDashboard
    /\ ld' = FreshLecturerDashboard
    /\ tasks' = Orphaned(tasks)
    /\ UNCHANGED <<lecturerAttendance, studentSession, facultySession, onLine, today>>

\* useCamera's cleanup, an effect with [] dependencies: it calls the
\* stopCamera of the first render, whose cameraState is the initial one, so
\* the tracks of the stream the hook holds at unmount are stopped only if
\* that initial state held a stream.
useCameraCleanup(cameraState) ==
    IF cameraState.stream /\ ~InitialCameraState.stream THEN "stream active" ELSE "released"

\* Header: Logout.  A mounted dashboard is unmounted and its useCamera
\* cleanup runs.
handleLogout ==
    /\ currentUser # NULL
    /\ currentUser' = NULL
    /\ currentPage' = "LOGIN"
    /\ sd' = FreshStudentDashboard
    /\ ld' = FreshLecturerDashboard
    /\ tasks' = Orphaned(tasks)
    /\ ev' = IF StudentMounted
             THEN Event("unmount", currentUser, useCameraCleanup(sd.cameraState), FALSE, <<>>)
             ELSE IF LecturerMounted
             THEN Event("unmount", currentUser, useCameraCleanup(ld.cameraState), FALSE, <<>>)
             ELSE NoEvent
    /\ UNCHANGED <<attendance, lecturerAttendance, studentSession, facultySession,
                   attendanceQueue, onLine, today>>

\* Header: the Home / Dashboard button of the role (the record views, which
\* hold no state of the protocol, are left out)
PagesOf(role) ==
    IF role = "LECTURER" THEN {"LECTURER_DASHBOARD"}
    ELSE IF role = "ADMIN" THEN {"ADMIN_DASHBOARD"}
    ELSE {"STUDENT_DASHBOARD"}

setPage(p) ==
    /\ currentUser # NULL
    /\ p \in PagesOf(Role(currentUser))
    /\ p # currentPage
    /\ currentPage' = p
    /\ sd' = FreshStudentDashboard
    /\ ld' = FreshLecturerDashboard
    /\ tasks' = Orphaned(tasks)
    /\ ev' = NoEvent
    /\ UNCHANGED <<currentUser, attendance, lecturerAttendance, studentSession,
                   facultySession, attendanceQueue, onLine, today>>

\* variant: the queue is kept in memory and is lost with the page
Reload_VolatileQueue ==
    /\ currentUser' = NULL
    /\ currentPage' = "LOGIN"
    /\ attendance' = <<>>
    /\ lecturerAttendance' = <<>>
    /\ studentSession' = None
    /\ facultySession' = None
    /\ sd' = FreshStudentDashboard
    /\ ld' = FreshLecturerDashboard
    /\ tasks' = <<>>
    /\ attendanceQueue' = <<>>
    /\ ev' = Event("reload", NULL, "restart", FALSE, <<>>)
    /\ UNCHANGED <<onLine, today>>

\* The page is reloaded or the browser restarted: every useState starts
\* again from its initial value and the suspended handlers are gone; only
\* localStorage (and the world: network, clock) is kept.
Reload ==
    /\ currentUser' = NULL
    /\ currentPage' = "LOGIN"
    /\ attendance' = <<>>
    /\ lecturerAttendance' = <<>>
    /\ studentSession' = None
    /\ facultySession' = None
    /\ sd' = FreshStudentDashboard
    /\ ld' = FreshLecturerDashboard
    /\ tasks' = <<>>
    /\ ev' = Event("reload", NULL, "restart", FALSE, <<>>)
    /\ UNCHANGED <<attendanceQueue, onLine, today>>

\* Midnight passes.
Tick ==
    /\ today < MaxDay
    /\ today' = today + 1
    /\ ev' = NoEvent
    /\ UNCHANGED <<currentUser, currentPage, attendance, lecturerAttendance, studentSession,
                   facultySession, attendanceQueue, onLine, sd, ld, tasks>>

GoOffline ==
    /\ onLine
    /\ onLine' = FALSE
    /\ ev' = NoEvent
    /\ UNCHANGED <<currentUser, currentPage, attendance, lecturerAttendance, studentSession,
                   facultySession, attendanceQueue, today, sd, ld, tasks>>

\* variant: processQueue is not registered as a listener of 'online'
GoOnline_NoListener ==
    /\ ~onLine
    /\ onLine' = TRUE
    /\ ev' = NoEvent
    /\ UNCHANGED <<currentUser, currentPage, attendance, lecturerAttendance, studentSession,
                   facultySession, attendanceQueue, today, sd, ld, tasks>>

\* The 'online' event: processQueue is a listener while a StudentDashboard exists.
GoOnline ==
    /\ ~onLine
    /\ onLine' = TRUE
    /\ IF StudentMounted
       THEN /\ attendance' = processQueueLedger(attendance, attendanceQueue, TRUE)
            /\ attendanceQueue' = processQueueStorage(attendanceQueue, TRUE)
            /\ ev' = Event("online", currentUser, processQueueResult(attendanceQueue, TRUE),
                           TRUE, <<>>)
       ELSE /\ UNCHANGED <<attendance, attendanceQueue>>
            /\ ev' = NoEvent
    /\ UNCHANGED <<currentUser, currentPage, lecturerAttendance, studentSession,
                   facultySession, today, sd, ld, tasks>>

----------------------------------------------------------------------------
(* SessionManager: LecturerDashboard.handleStart, AdminDashboard.handleStartFacultySession,
   App.handleStart/End...Session *)

UnitsOf(c) == {u \in Units : UnitCourse(u) = c}

\* variant: the radius is not validated
handleStartValid_NoRadiusCheck(course, unit, radius, location) ==
    /\ course # "" /\ unit # ""
    /\ location # None

\* the validation of LecturerDashboard.handleStart
handleStartValid(course, unit, radius, location) ==
    /\ course # "" /\ unit # ""
    /\ ~(radius < MinRadius \/ radius > MaxRadius)
    /\ location # None

handleStartStudentSession(course, unit, radius, location) ==
    [course |-> course, unit |-> unit, startTime |-> today, lecturerId |-> currentUser,
     lockedLocation |-> Val(location), radius |-> radius]

handleStart ==
    /\ LecturerMounted
    /\ \E course \in Courses \cup {""}, radius \in RadiusInputs :
       \E unit \in UnitsOf(course) \cup {""} :
       \E location \in {None, Some(VenueOf(unit))} :
          IF handleStartValid(course, unit, radius, location)
          THEN /\ studentSession' = Some(handleStartStudentSession(course, unit, radius, location))
               /\ currentPage' = "TAKE_ATTENDANCE"
               /\ ld' = FreshLecturerDashboard
               /\ tasks' = Orphaned(tasks)
               /\ ev' = Event("handleStart", currentUser,
                              IF studentSession = None THEN "started" ELSE "replaced", TRUE, <<>>)
          ELSE /\ ev' = Event("handleStart", currentUser, "rejected", TRUE, <<>>)
               /\ UNCHANGED <<studentSession, currentPage, ld, tasks>>
    /\ UNCHANGED <<currentUser, attendance, lecturerAttendance, facultySession,
                   attendanceQueue, onLine, today, sd>>

\* variant: ending the student session also ends the faculty session
handleEndStudentSession_EndsBoth ==
    /\ currentPage = "TAKE_ATTENDANCE"
    /\ studentSession' = None
    /\ facultySession' = None
    /\ currentPage' = "LECTURER_DASHBOARD"
    /\ ld' = FreshLecturerDashboard
    /\ ev' = Event("handleEndStudentSession", currentUser, "ended", TRUE, <<>>)
    /\ UNCHANGED <<currentUser, attendance, lecturerAttendance,
                   attendanceQueue, onLine, today, sd, tasks>>

handleEndStudentSession ==
    /\ currentPage = "TAKE_ATTENDANCE"
    /\ studentSession' = None
    /\ currentPage' = "LECTURER_DASHBOARD"
    /\ ld' = FreshLecturerDashboard
    /\ ev' = Event("handleEndStudentSession", currentUser, "ended", TRUE, <<>>)
    /\ UNCHANGED <<currentUser, attendance, lecturerAttendance, facultySession,
                   attendanceQueue, onLine, today, sd, tasks>>

\* the validation of AdminDashboard.handleStartFacultySession
handleStartFacultySessionValid(name, location) == name # "" /\ location # None

handleStartFacultySession ==
    /\ currentPage = "ADMIN_DASHBOARD"
    /\ \E name \in {"", "f1"}, radius \in AdminRadiusInputs, location \in Option(FacultySessionCenters) :
          IF handleStartFacultySessionValid(name, location)
          THEN /\ facultySession' = Some([name |-> name, startTime |-> today,
                                          lockedLocation |-> Val(location), radius |-> radius])
               /\ currentPage' = "TAKE_LECTURER_ATTENDANCE"
               /\ ev' = Event("handleStartFacultySession", currentUser,
                              IF facultySession = None THEN "started" ELSE "replaced", TRUE, <<>>)
          ELSE /\ ev' = Event("handleStartFacultySession", currentUser, "rejected", TRUE, <<>>)
               /\ UNCHANGED <<facultySession, currentPage>>
    /\ UNCHANGED <<currentUser, attendance, lecturerAttendance, studentSession,
                   attendanceQueue, onLine, today, sd, ld, tasks>>

\* variant: ending the faculty session clears the lecturer ledger
handleEndFacultySession_ClearsLedger ==
    /\ currentPage = "TAKE_LECTURER_ATTENDANCE"
    /\ facultySession' = None
    /\ lecturerAttendance' = <<>>
    /\ currentPage' = "ADMIN_DASHBOARD"
    /\ ev' = Event("handleEndFacultySession", currentUser, "ended", TRUE, <<>>)
    /\ UNCHANGED <<currentUser, attendance, studentSession,
                   attendanceQueue, onLine, today, sd, ld, tasks>>

handleEndFacultySession ==
    /\ currentPage = "TAKE_LECTURER_ATTENDANCE"
    /\ facultySession' = None
    /\ currentPage' = "ADMIN_DASHBOARD"
    /\ ev' = Event("handleEndFacultySession", currentUser, "ended", TRUE, <<>>)
    /\ UNCHANGED <<currentUser, attendance, lecturerAttendance, studentSession,
                   attendanceQueue, onLine, today, sd, ld, tasks>>

----------------------------------------------------------------------------
(* useCamera *)

\* setCameraState of a successful getUserMedia
CameraOn == [stream |-> TRUE, error |-> NULL, isCameraOn |-> TRUE, isVideoReady |-> FALSE]

\* setCameraState of the catch branch of startCamera
CameraFailure ==
    [stream |-> FALSE, error |-> "Could not start camera. Please grant permission.",
     isCameraOn |-> FALSE, isVideoReady |-> FALSE]

\* capturePhoto: a frame (or null) when the video is ready and shows a
\* stream, null otherwise
capturePhoto(d) ==
    IF d.cameraState.isVideoReady /\ d.srcObject THEN Option({"photo"}) ELSE {None}

\* stopCamera: acts only when the render it closes over holds a stream
stopCamera(cameraState) == IF cameraState.stream THEN NoCamera ELSE cameraState

\* The dashboards' effect on [cameraError]: it runs when the value of
\* cameraError differs from the one of the previous render and is not null.
cameraErrorEffect(d, cameraState) ==
    IF cameraState.error # NULL /\ cameraState.error # d.cameraState.error
    THEN [d EXCEPT !.cameraState = cameraState, !.errorMessage = cameraState.error,
                   !.status = "ERROR", !.srcObject = FALSE]
    ELSE [d EXCEPT !.cameraState = cameraState]

cameraErrorTrail(d, cameraState) ==
    IF cameraState.error # NULL /\ cameraState.error # d.cameraState.error
    THEN <<"ERROR">> ELSE <<>>

----------------------------------------------------------------------------
(* StudentDashboard: the capture flow *)

isSessionActiveForStudent ==
    /\ StudentMounted
    /\ studentSession # None
    /\ StudentCourse(currentUser) = Val(studentSession).course

\* the predicate of isAlreadyMarked on one ledger record
StudentRecordMatches(record, studentId, session) ==
    /\ record.studentId = studentId
    /\ record.unitId = session.unit
    /\ record.timestamp = session.startTime

StudentDashboard_isAlreadyMarked ==
    /\ isSessionActiveForStudent
    /\ \E i \in DOMAIN attendance :
          StudentRecordMatches(attendance[i], currentUser, Val(studentSession))

\* variant: the card is drawn from the status alone
renderAttendanceCaptureUI_StatusOnly ==
    IF ~isSessionActiveForStudent THEN "NO_SESSION"
    ELSE IF sd.status = "CONFIRMED" THEN "MARKED"
    ELSE sd.status

\* renderAttendanceCaptureUI: which screen of the capture card is shown
renderAttendanceCaptureUI ==
    IF ~isSessionActiveForStudent THEN "NO_SESSION"
    ELSE IF StudentDashboard_isAlreadyMarked \/ sd.status = "CONFIRMED" THEN "MARKED"
    ELSE sd.status

\* Records stored, queued or still to be built by a suspended handleSubmit
RecordsInPlay ==
    Len(attendance) + Len(attendanceQueue) + Len(lecturerAttendance)
    + Cardinality({i \in DOMAIN tasks : tasks[i].kind \in {"compareFaces", "getGeoLocation"}
                                         /\ ~(tasks[i].kind = "getGeoLocation"
                                               /\ Role(tasks[i].who) = "STUDENT")})

\* 'Mark Attendance' button, while fewer than maxTasks handlers are suspended
handleStartAttendanceProcessWithin(maxTasks) ==
    /\ renderAttendanceCaptureUI = "READY"
    /\ Len(tasks) < maxTasks
    /\ sd' = [sd EXCEPT !.status = "CHECKING_LOCATION", !.errorMessage = NULL,
                        !.isDistanceError = FALSE]
    /\ tasks' = Append(tasks, Task("getGeoLocation", currentUser, studentSession, None, FALSE))
    /\ ev' = Event("handleStartAttendanceProcess", currentUser, "await", TRUE,
                   <<"CHECKING_LOCATION">>)
    /\ UNCHANGED <<currentUser, currentPage, attendance, lecturerAttendance, studentSession,
                   facultySession, attendanceQueue, onLine, today, ld>>

handleStartAttendanceProcess == handleStartAttendanceProcessWithin(MaxTasks)

\* variant: a student exactly on the boundary of the zone is refused
StudentLocationOutcome_ExcludesBoundary(session, p) ==
    IF session = None THEN "Session is not active."
    ELSE IF calculateDistance(p, Val(session).lockedLocation) >= Val(session).radius
    THEN "You are not in the attendance zone."
    ELSE "CAPTURING"

\* variant: the distance is not compared with the radius
StudentLocationOutcome_NoZoneCheck(session, p) ==
    IF session = None THEN "Session is not active." ELSE "CAPTURING"

\* the outcome of the location check of handleStartAttendanceProcess
StudentLocationOutcome(session, p) ==
    IF session = None THEN "Session is not active."
    ELSE IF calculateDistance(p, Val(session).lockedLocation) > Val(session).radius
    THEN "You are not in the attendance zone."
    ELSE "CAPTURING"

\* handleStartAttendanceProcess resumes after getGeoLocation resolved with p
StudentLocationResolved(i, p) ==
    LET t == tasks[i]
        out == StudentLocationOutcome(t.sess, p)
    IN /\ t.kind = "getGeoLocation" /\ Role(t.who) = "STUDENT"
       /\ IF out = "CAPTURING"
          THEN /\ tasks' = Append(RemoveAt(tasks, i),
                                  Task("getUserMedia", t.who, None, None, t.orphan))
               /\ sd' = IF t.orphan THEN sd
                        ELSE [sd EXCEPT !.studentLocation = Some(p), !.status = "CAPTURING"]
               /\ ev' = Event("getGeoLocation", t.who, "CAPTURING", ~t.orphan, <<"CAPTURING">>)
          ELSE /\ tasks' = RemoveAt(tasks, i)
               /\ sd' = IF t.orphan THEN sd
                        ELSE [sd EXCEPT !.studentLocation = Some(p), !.status = "ERROR",
                                        !.errorMessage = out,
                                        !.isDistanceError = (t.sess # None)]
               /\ ev' = Event("getGeoLocation", t.who, out, ~t.orphan, <<"ERROR">>)
       /\ UNCHANGED <<currentUser, currentPage, attendance, lecturerAttendance, studentSession,
                      facultySession, attendanceQueue, onLine, today, ld>>

\* ... after getGeoLocation rejected (permission denied, timeout, no hardware)
StudentLocationRejected(i) ==
    LET t == tasks[i]
    IN /\ t.kind = "getGeoLocation" /\ Role(t.who) = "STUDENT"
       /\ tasks' = RemoveAt(tasks, i)
       /\ sd' = IF t.orphan THEN sd
                ELSE [sd EXCEPT !.status = "ERROR", !.errorMessage = "Could not get your location."]
       /\ ev' = Event("getGeoLocation", t.who, "rejected", ~t.orphan, <<"ERROR">>)
       /\ UNCHANGED <<currentUser, currentPage, attendance, lecturerAttendance, studentSession,
                      facultySession, attendanceQueue, onLine, today, ld>>

StudentGetGeoLocationResolved ==
    \E i \in DOMAIN tasks, p \in Positions : StudentLocationResolved(i, p)
StudentGetGeoLocationRejected == \E i \in DOMAIN tasks : StudentLocationRejected(i)

\* 'Verify Face & Submit' button, up to the await of compareFaces; the call
\* is made while fewer than maxTasks handlers are suspended and fewer than
\* maxRecords records are in play
StudentDashboard_handleSubmitWithin(maxTasks, maxRecords) ==
    /\ renderAttendanceCaptureUI = "CAPTURING"
    /\ sd.cameraState.isVideoReady
    /\ \E photoBase64 \in capturePhoto(sd) :
          IF photoBase64 = None \/ studentSession = None
          THEN /\ sd' = [sd EXCEPT !.status = "ERROR", !.isDistanceError = FALSE,
                            !.srcObject = FALSE,
                            !.errorMessage = "Could not capture photo or session data is missing."]
               /\ UNCHANGED tasks
               /\ ev' = Event("handleSubmit", currentUser, "no photo", TRUE, <<"ERROR">>)
          ELSE /\ Len(tasks) < maxTasks
               /\ RecordsInPlay < maxRecords
               /\ sd' = [sd EXCEPT !.status = "VERIFYING", !.isDistanceError = FALSE,
                            !.errorMessage = NULL, !.srcObject = FALSE,
                            !.cameraState = stopCamera(sd.cameraState)]
               /\ tasks' = Append(tasks, Task("compareFaces", currentUser, studentSession,
                                               sd.studentLocation, FALSE))
               /\ ev' = Event("handleSubmit", currentUser, "await", TRUE, <<"VERIFYING">>)
    /\ UNCHANGED <<currentUser, currentPage, attendance, lecturerAttendance, studentSession,
                   facultySession, attendanceQueue, onLine, today, ld>>

StudentDashboard_handleSubmit == StudentDashboard_handleSubmitWithin(MaxTasks, MaxRecords)

\* newRecord of StudentDashboard.handleSubmit
StudentNewRecord(who, session, location) ==
    [studentId |-> who, timestamp |-> today, courseId |-> session.course,
     unitId |-> session.unit, sessionLocation |-> session.lockedLocation,
     sessionRadius |-> session.radius, geo |-> location]

\* variant: a mismatch is not rejected
StudentSubmitOutcome_AcceptsMismatch(isMatch, location, online) ==
    IF isMatch = "throw" THEN "Could not verify face due to an API error."
    ELSE IF location = None THEN "Location data was lost. Please try the process again."
    ELSE IF online THEN "CONFIRMED" ELSE "OFFLINE_QUEUED"

\* variant: a failure of the verification service is not caught
StudentSubmitOutcome_FailsOpen(isMatch, location, online) ==
    IF isMatch = "false" THEN "Face does not match registered photo. Please try again."
    ELSE IF location = None THEN "Location data was lost. Please try the process again."
    ELSE IF online THEN "CONFIRMED" ELSE "OFFLINE_QUEUED"

\* variant: navigator.onLine is not consulted
StudentSubmitOutcome_IgnoresNetwork(isMatch, location, online) ==
    IF isMatch = "throw" THEN "Could not verify face due to an API error."
    ELSE IF isMatch = "false" THEN "Face does not match registered photo. Please try again."
    ELSE IF location = None THEN "Location data was lost. Please try the process again."
    ELSE "CONFIRMED"

\* what handleSubmit does once compareFaces has answered isMatch
StudentSubmitOutcome(isMatch, location, online) ==
    IF isMatch = "throw" THEN "Could not verify face due to an API error."
    ELSE IF isMatch = "false" THEN "Face does not match registered photo. Please try again."
    ELSE IF location = None THEN "Location data was lost. Please try the process again."
    ELSE IF online THEN "CONFIRMED" ELSE "OFFLINE_QUEUED"

StudentSubmitTrail(out, isMatch) ==
    IF isMatch # "true" THEN <<"ERROR">>
    ELSE IF out \in {"CONFIRMED", "OFFLINE_QUEUED"} THEN <<"SUBMITTING", out>>
    ELSE <<"SUBMITTING", "ERROR">>

\* handleSubmit resumes after compareFaces
StudentFacesCompared(i, isMatch) ==
    LET t == tasks[i]
        out == StudentSubmitOutcome(isMatch, t.loc, onLine)
        newRecord == StudentNewRecord(t.who, Val(t.sess), Val(t.loc))
    IN /\ t.kind = "compareFaces" /\ Role(t.who) = "STUDENT"
       /\ tasks' = RemoveAt(tasks, i)
       /\ attendance' = IF out = "CONFIRMED" THEN Append(attendance, newRecord) ELSE attendance
       /\ attendanceQueue' = IF out = "OFFLINE_QUEUED" THEN Append(attendanceQueue, newRecord)
                             ELSE attendanceQueue
       /\ sd' = IF t.orphan THEN sd
                ELSE IF out \in {"CONFIRMED", "OFFLINE_QUEUED"} THEN [sd EXCEPT !.status = out]
                ELSE [sd EXCEPT !.status = "ERROR", !.errorMessage = out]
       /\ ev' = Event("compareFaces", t.who, isMatch, ~t.orphan, StudentSubmitTrail(out, isMatch))
       /\ UNCHANGED <<currentUser, currentPage, lecturerAttendance, studentSession,
                      facultySession, onLine, today, ld>>

StudentCompareFacesDone ==
    \E i \in DOMAIN tasks, isMatch \in {"true", "false", "throw"} : StudentFacesCompared(i, isMatch)

\* 'Try Again' button
StudentDashboard_handleRetry ==
    /\ renderAttendanceCaptureUI = "ERROR"
    /\ sd' = [sd EXCEPT !.status = "READY", !.errorMessage = NULL, !.isDistanceError = FALSE,
                        !.cameraState = IF sd.cameraState.isCameraOn
                                        THEN stopCamera(sd.cameraState) ELSE sd.cameraState]
    /\ ev' = Event("handleRetry", currentUser, "READY", TRUE, <<"READY">>)
    /\ UNCHANGED <<currentUser, currentPage, attendance, lecturerAttendance, studentSession,
                   facultySession, attendanceQueue, onLine, today, ld, tasks>>

----------------------------------------------------------------------------
(* LecturerDashboard: the capture flow *)

\* the predicate of isAlreadyMarked on one ledger record
LecturerRecordMatches(record, userId, session) ==
    /\ record.userId = userId
    /\ record.timestamp = session.startTime

LecturerDashboard_isAlreadyMarked ==
    /\ LecturerMounted
    /\ facultySession # None
    /\ \E i \in DOMAIN lecturerAttendance :
          LecturerRecordMatches(lecturerAttendance[i], currentUser, Val(facultySession))

\* renderLecturerAttendanceUI: which screen of the capture card is shown
renderLecturerAttendanceUI ==
    IF ~LecturerMounted \/ facultySession = None THEN "NO_SESSION"
    ELSE IF LecturerDashboard_isAlreadyMarked \/ ld.status = "CONFIRMED" THEN "MARKED"
    ELSE ld.status

\* 'Start Camera' button, while fewer than maxTasks handlers are suspended
handleStartCameraWithin(maxTasks) ==
    /\ renderLecturerAttendanceUI = "READY"
    /\ Len(tasks) < maxTasks
    /\ ld' = [ld EXCEPT !.status = "CAPTURING"]
    /\ tasks' = Append(tasks, Task("getUserMedia", currentUser, None, None, FALSE))
    /\ ev' = Event("handleStartCamera", currentUser, "await", TRUE, <<"CAPTURING">>)
    /\ UNCHANGED <<currentUser, currentPage, attendance, lecturerAttendance, studentSession,
                   facultySession, attendanceQueue, onLine, today, sd>>

handleStartCamera == handleStartCameraWithin(MaxTasks)

\* 'Verify & Submit' button, up to the await of compareFaces; the call is
\* made while fewer than maxTasks handlers are suspended and fewer than
\* maxRecords records are in play
LecturerDashboard_handleSubmitWithin(maxTasks, maxRecords) ==
    /\ renderLecturerAttendanceUI = "CAPTURING"
    /\ ld.cameraState.isVideoReady
    /\ \E photoBase64 \in capturePhoto(ld) :
          IF photoBase64 = None \/ facultySession = None
          THEN /\ ld' = [ld EXCEPT !.status = "ERROR", !.isDistanceError = FALSE,
                            !.srcObject = FALSE,
                            !.errorMessage = "Could not capture photo or session data is missing."]
               /\ UNCHANGED tasks
               /\ ev' = Event("handleSubmit", currentUser, "no photo", TRUE, <<"ERROR">>)
          ELSE /\ Len(tasks) < maxTasks
               /\ RecordsInPlay < maxRecords
               /\ ld' = [ld EXCEPT !.status = "VERIFYING", !.isDistanceError = FALSE,
                            !.errorMessage = NULL, !.srcObject = FALSE,
                            !.cameraState = stopCamera(ld.cameraState)]
               /\ tasks' = Append(tasks, Task("compareFaces", currentUser, facultySession,
                                               None, FALSE))
               /\ ev' = Event("handleSubmit", currentUser, "await", TRUE, <<"VERIFYING">>)
    /\ UNCHANGED <<currentUser, currentPage, attendance, lecturerAttendance, studentSession,
                   facultySession, attendanceQueue, onLine, today, sd>>

LecturerDashboard_handleSubmit == LecturerDashboard_handleSubmitWithin(MaxTasks, MaxRecords)

\* handleSubmit resumes after compareFaces: on a match it goes on to the
\* await of getGeoLocation, in the same closure.
LecturerFacesCompared(i, isMatch) ==
    LET t == tasks[i]
    IN /\ t.kind = "compareFaces" /\ Role(t.who) = "LECTURER"
       /\ IF isMatch = "true"
          THEN /\ tasks' = Append(RemoveAt(tasks, i),
                                  Task("getGeoLocation", t.who, t.sess, None, t.orphan))
               /\ ld' = IF t.orphan THEN ld ELSE [ld EXCEPT !.status = "SUBMITTING"]
               /\ ev' = Event("compareFaces", t.who, isMatch, ~t.orphan, <<"SUBMITTING">>)
          ELSE /\ tasks' = RemoveAt(tasks, i)
               /\ ld' = IF t.orphan THEN ld
                        ELSE [ld EXCEPT !.status = "ERROR",
                                 !.errorMessage =
                                     IF isMatch = "false"
                                     THEN "Face does not match registered photo. Please try again."
                                     ELSE "Could not verify face due to an API error."]
               /\ ev' = Event("compareFaces", t.who, isMatch, ~t.orphan, <<"ERROR">>)
       /\ UNCHANGED <<currentUser, currentPage, attendance, lecturerAttendance, studentSession,
                      facultySession, attendanceQueue, onLine, today, sd>>

LecturerCompareFacesDone ==
    \E i \in DOMAIN tasks, isMatch \in {"true", "false", "throw"} : LecturerFacesCompared(i, isMatch)

\* newRecord of LecturerDashboard.handleSubmit
LecturerNewRecord(who, location) == [userId |-> who, timestamp |-> today, geo |-> location]

\* variant: the distance is not compared with the radius
LecturerInZone_NoZoneCheck(session, p) == TRUE

\* the distance check of LecturerDashboard.handleSubmit
LecturerInZone(session, p) ==
    ~(calculateDistance(p, session.lockedLocation) > session.radius)

\* the ledger after the commit branch of LecturerDashboard.handleSubmit
LecturerCommit(prev, newRecord, online) == IF online THEN Append(prev, newRecord) ELSE prev

\* handleSubmit resumes after getGeoLocation resolved with p
LecturerLocationResolved(i, p) ==
    LET t == tasks[i]
        inZone == LecturerInZone(Val(t.sess), p)
    IN /\ t.kind = "getGeoLocation" /\ Role(t.who) = "LECTURER"
       /\ tasks' = RemoveAt(tasks, i)
       /\ lecturerAttendance' =
             IF inZone THEN LecturerCommit(lecturerAttendance, LecturerNewRecord(t.who, p), onLine)
             ELSE lecturerAttendance
       /\ ld' = IF t.orphan THEN ld
                ELSE IF inZone
                THEN [ld EXCEPT !.lecturerLocation = Some(p), !.status = "CONFIRMED"]
                ELSE [ld EXCEPT !.lecturerLocation = Some(p), !.status = "ERROR",
                                !.errorMessage = "You are not in the attendance zone.",
                                !.isDistanceError = TRUE]
       /\ ev' = Event("getGeoLocation", t.who, IF inZone THEN "CONFIRMED" ELSE "zone",
                      ~t.orphan, IF inZone THEN <<"CONFIRMED">> ELSE <<"ERROR">>)
       /\ UNCHANGED <<currentUser, currentPage, attendance, studentSession,
                      facultySession, attendanceQueue, onLine, today, sd>>

\* ... after getGeoLocation rejected
LecturerLocationRejected(i) ==
    LET t == tasks[i]
    IN /\ t.kind = "getGeoLocation" /\ Role(t.who) = "LECTURER"
       /\ tasks' = RemoveAt(tasks, i)
       /\ ld' = IF t.orphan THEN ld
                ELSE [ld EXCEPT !.status = "ERROR", !.errorMessage = "An unknown error occurred."]
       /\ ev' = Event("getGeoLocation", t.who, "rejected", ~t.orphan, <<"ERROR">>)
       /\ UNCHANGED <<currentUser, currentPage, attendance, lecturerAttendance, studentSession,
                      facultySession, attendanceQueue, onLine, today, sd>>

LecturerGetGeoLocationResolved ==
    \E i \in DOMAIN tasks, p \in Positions : LecturerLocationResolved(i, p)
LecturerGetGeoLocationRejected == \E i \in DOMAIN tasks : LecturerLocationRejected(i)

\* 'Try Again' button.  stopCamera is called when videoRef.current has a
\* srcObject; the video element exists only on the CAPTURING screen.
LecturerDashboard_handleRetry ==
    /\ renderLecturerAttendanceUI = "ERROR"
    /\ ld' = [ld EXCEPT !.status = "READY", !.errorMessage = NULL, !.isDistanceError = FALSE,
                        !.cameraState = IF ld.srcObject
                                        THEN stopCamera(ld.cameraState) ELSE ld.cameraState]
    /\ ev' = Event("handleRetry", currentUser, "READY", TRUE, <<"READY">>)
    /\ UNCHANGED <<currentUser, currentPage, attendance, lecturerAttendance, studentSession,
                   facultySession, attendanceQueue, onLine, today, sd, tasks>>

----------------------------------------------------------------------------
(* useCamera: the steps that follow getUserMedia and 'canplay' *)

\* setCameraState of startCamera on a dashboard d; on success the stream is
\* attached to the video element when one is mounted (videoRef.current).
startCameraSettled(d, ok, mounted) ==
    IF ok THEN [cameraErrorEffect(d, CameraOn) EXCEPT !.srcObject = mounted]
    ELSE cameraErrorEffect(d, CameraFailure)

\* startCamera resumes after getUserMedia, with a stream (ok) or an exception.
startCameraDone(i, ok) ==
    LET t == tasks[i]
        cs == IF ok THEN CameraOn ELSE CameraFailure
    IN /\ t.kind = "getUserMedia"
       /\ tasks' = RemoveAt(tasks, i)
       /\ IF t.orphan
          THEN /\ UNCHANGED <<sd, ld>>
               /\ ev' = Event("startCamera", t.who, IF ok THEN "stream" ELSE "error", FALSE, <<>>)
          ELSE IF Role(t.who) = "STUDENT"
          THEN /\ sd' = startCameraSettled(sd, ok, renderAttendanceCaptureUI = "CAPTURING")
               /\ UNCHANGED ld
               /\ ev' = Event("startCamera", t.who, IF ok THEN "stream" ELSE "error", TRUE,
                              cameraErrorTrail(sd, cs))
          ELSE /\ ld' = startCameraSettled(ld, ok, renderLecturerAttendanceUI = "CAPTURING")
               /\ UNCHANGED sd
               /\ ev' = Event("startCamera", t.who, IF ok THEN "stream" ELSE "error", TRUE,
                              cameraErrorTrail(ld, cs))
       /\ UNCHANGED <<currentUser, currentPage, attendance, lecturerAttendance, studentSession,
                      facultySession, attendanceQueue, onLine, today>>

startCameraResolved == \E i \in DOMAIN tasks : startCameraDone(i, TRUE)
startCameraRejected == \E i \in DOMAIN tasks : startCameraDone(i, FALSE)

\* The video element of the CAPTURING screen fires 'canplay'.
handleCanPlay ==
    /\ \/ /\ renderAttendanceCaptureUI = "CAPTURING"
          /\ sd.srcObject /\ sd.cameraState.stream /\ ~sd.cameraState.isVideoReady
          /\ sd' = [sd EXCEPT !.cameraState.isVideoReady = TRUE]
          /\ UNCHANGED ld
       \/ /\ renderLecturerAttendanceUI = "CAPTURING"
          /\ ld.srcObject /\ ld.cameraState.stream /\ ~ld.cameraState.isVideoReady
          /\ ld' = [ld EXCEPT !.cameraState.isVideoReady = TRUE]
          /\ UNCHANGED sd
    /\ ev' = NoEvent
    /\ UNCHANGED <<currentUser, currentPage, attendance, lecturerAttendance, studentSession,
                   facultySession, attendanceQueue, onLine, today, tasks>>

----------------------------------------------------------------------------
(* Dashboards: the attendance percentage *)

\* The key `${r.unitId}-${new Date(r.timestamp).toDateString()}` of a student
\* record; a timestamp of the model is a calendar day.
StudentSessionKey(r) == <<r.unitId, r.timestamp>>

\* allCourseAttendance and studentAttendance of StudentDashboard
allCourseAttendance(ledger, studentId) ==
    {ledger[i] : i \in {j \in DOMAIN ledger : ledger[j].courseId = StudentCourse(studentId)}}
studentAttendance(ledger, studentId) ==
    {ledger[i] : i \in {j \in DOMAIN ledger : ledger[j].studentId = studentId}}

totalSessions(ledger, studentId) ==
    Cardinality({StudentSessionKey(r) : r \in allCourseAttendance(ledger, studentId)})
studentSessionsAttended(ledger, studentId) ==
    Cardinality({StudentSessionKey(r) : r \in studentAttendance(ledger, studentId)})

\* A quotient num / den; den = 0 is the result of a division by zero.
Quotient(num, den) == [num |-> num, den |-> den]

\* variant: the quotient is taken without looking at totalSessions
StudentPercentage_NoZeroGuard(ledger, studentId) ==
    Quotient(studentSessionsAttended(ledger, studentId) * 100, totalSessions(ledger, studentId))

\* perc of StudentDashboard
StudentPercentage(ledger, studentId) ==
    IF totalSessions(ledger, studentId) > 0
    THEN Quotient(studentSessionsAttended(ledger, studentId) * 100,
                  totalSessions(ledger, studentId))
    ELSE Quotient(0, 1)

\* totalLecturerSessionDays and lecturerPresentDays of LecturerDashboard
totalLecturerSessionDays(ledger) == Cardinality({ledger[i].timestamp : i \in DOMAIN ledger})
lecturerPresentDays(ledger, userId) ==
    Cardinality({ledger[i].timestamp : i \in {j \in DOMAIN ledger : ledger[j].userId = userId}})

\* perc of LecturerDashboard
LecturerPercentage(ledger, userId) ==
    IF totalLecturerSessionDays(ledger) > 0
    THEN Quotient(lecturerPresentDays(ledger, userId) * 100, totalLecturerSessionDays(ledger))
    ELSE Quotient(0, 1)

----------------------------------------------------------------------------
(* The system *)

Next ==
    \/ \E u \in Users : Login(u)
    \/ handleLogout
    \/ \E p \in {"LECTURER_DASHBOARD", "ADMIN_DASHBOARD"} : setPage(p)
    \/ Reload
    \/ Tick
    \/ GoOffline
    \/ GoOnline
    \/ handleStart
    \/ handleEndStudentSession
    \/ handleStartFacultySession
    \/ handleEndFacultySession
    \/ startCameraResolved
    \/ startCameraRejected
    \/ handleCanPlay
    \/ handleStartAttendanceProcess
    \/ StudentGetGeoLocationResolved
    \/ StudentGetGeoLocationRejected
    \/ StudentDashboard_handleSubmit
    \/ StudentCompareFacesDone
    \/ StudentDashboard_handleRetry
    \/ handleStartCamera
    \/ LecturerDashboard_handleSubmit
    \/ LecturerCompareFacesDone
    \/ LecturerGetGeoLocationResolved
    \/ LecturerGetGeoLocationRejected
    \/ LecturerDashboard_handleRetry

Spec == Init /\ [][Next]_vars

\* Concurrent submissions: the students' capture flow with up to MaxPending
\* suspended handlers, the lecturer who starts and replaces the sessions, and
\* the network.
NextConcurrent ==
    \/ \E u \in Students \cup Lecturers : Login(u)
    \/ handleLogout
    \/ setPage("LECTURER_DASHBOARD")
    \/ GoOffline
    \/ GoOnline
    \/ handleStart
    \/ startCameraResolved
    \/ handleCanPlay
    \/ handleStartAttendanceProcessWithin(MaxPending)
    \/ StudentGetGeoLocationResolved
    \/ StudentDashboard_handleSubmitWithin(MaxPending, MaxAppends)
    \/ StudentCompareFacesDone

SpecConcurrent == Init /\ [][NextConcurrent]_vars

\* Overlapping camera starts: the lecturers' capture flow with up to
\* MaxPending suspended handlers, the admin who starts the faculty session,
\* and the network.
NextLecturerConcurrent ==
    \/ \E u \in Lecturers \cup Admins : Login(u)
    \/ handleLogout
    \/ GoOffline
    \/ GoOnline
    \/ handleStartFacultySession
    \/ handleStartCameraWithin(MaxPending)
    \/ startCameraResolved
    \/ startCameraRejected
    \/ handleCanPlay
    \/ LecturerDashboard_handleSubmitWithin(MaxPending, MaxRecords)
    \/ LecturerCompareFacesDone
    \/ LecturerGetGeoLocationResolved
    \/ LecturerGetGeoLocationRejected
    \/ LecturerDashboard_handleRetry

SpecLecturerConcurrent == Init /\ [][NextLecturerConcurrent]_vars

\* The offline queue over time: the students' capture flow, the lecturer
\* who starts the sessions, the network and the reload of the page.
NextQueue ==
    \/ \E u \in Students \cup Lecturers : Login(u)
    \/ handleLogout
    \/ Reload
    \/ GoOffline
    \/ GoOnline
    \/ handleStart
    \/ startCameraResolved
    \/ handleCanPlay
    \/ handleStartAttendanceProcess
    \/ StudentGetGeoLocationResolved
    \/ StudentDashboard_handleSubmit
    \/ StudentCompareFacesDone

\* a StudentDashboard mounts; the 'online' event reaches a mounted one
StudentDashboardMounts == \E u \in Students : Login(u)
OnlineEventAtDashboard == StudentMounted /\ GoOnline

\* Fairness: whoever is logged in eventually logs out, a student dashboard
\* that can mount again and again eventually mounts, and a mounted dashboard
\* that is offline again and again eventually gets the 'online' event.
SpecQueue ==
    /\ Init /\ [][NextQueue]_vars
    /\ WF_vars(handleLogout)
    /\ SF_vars(StudentDashboardMounts)
    /\ SF_vars(OnlineEventAtDashboard)

----------------------------------------------------------------------------
(* Vocabulary of the properties *)

Range(f) == {f[i] : i \in DOMAIN f}

\* the suspended handlers waiting on an await of the given kind
Awaiting(ts, kind) == {i \in DOMAIN ts : ts[i].kind = kind}

\* the step just taken is the resumption of a handler of that role after `op`
Resumed(op, role) == ev'.op = op /\ ev'.who # NULL /\ Role(ev'.who) = role

\* the step just taken is a button handler of a capture card
CaptureHandlers == {"handleStartAttendanceProcess", "handleStartCamera", "handleSubmit"}

LedgersUnchanged ==
    /\ attendance' = attendance
    /\ attendanceQueue' = attendanceQueue
    /\ lecturerAttendance' = lecturerAttendance

----------------------------------------------------------------------------
(* C1 *)

\* C1: in every reachable state the student ledger holds at most one record
\* per (studentId, unitId, calendar day of the record's timestamp).
C1_OneRecordPerStudentUnitDay ==
    \A i, j \in DOMAIN attendance :
        ( /\ attendance[i].studentId = attendance[j].studentId
          /\ attendance[i].unitId = attendance[j].unitId
          /\ attendance[i].timestamp = attendance[j].timestamp ) => i = j

----------------------------------------------------------------------------
(* C2 *)

\* C2: in every reachable state the lecturer ledger holds at most one record
\* per (userId, calendar day of the record's timestamp), also when a faculty
\* session stays live past midnight.
C2_OneRecordPerLecturerDay ==
    \A i, j \in DOMAIN lecturerAttendance :
        ( /\ lecturerAttendance[i].userId = lecturerAttendance[j].userId
          /\ lecturerAttendance[i].timestamp = lecturerAttendance[j].timestamp ) => i = j

----------------------------------------------------------------------------
(* C3 *)

\* C3: while the ledger holds a record matching the subject and the live
\* session, the capture card shows the 'already marked' screen whatever the
\* stored status is, and no button handler of the card (the ones that call
\* the GeoLocator or the FaceMatchOracle) runs from it; student and lecturer.
C3_AlreadyMarkedIsTerminal ==
    [][ /\ StudentDashboard_isAlreadyMarked =>
              /\ renderAttendanceCaptureUI = "MARKED"
              /\ ev'.op \notin CaptureHandlers
        /\ LecturerDashboard_isAlreadyMarked =>
              /\ renderLecturerAttendanceUI = "MARKED"
              /\ ev'.op \notin CaptureHandlers ]_vars

\* a freshly mounted student dashboard (status READY) of a marked student
C3_Witness == StudentDashboard_isAlreadyMarked /\ sd.status = "READY"

----------------------------------------------------------------------------
(* C4 *)

\* C4: student flow.  When getGeoLocation resolves and the distance to the
\* session's locked location exceeds the radius, the flow ends in ERROR with
\* isDistanceError set, no camera is started, CAPTURING is not passed and the
\* ledger and the queue are unchanged; when the distance is within the
\* radius (the boundary included) the flow is in CAPTURING.
C4_StudentZoneCheck ==
    [][ (Resumed("getGeoLocation", "STUDENT") /\ ev'.live /\ ev'.res # "rejected") =>
            /\ studentSession # None
            /\ LET p == Val(sd'.studentLocation)
                   session == Val(studentSession)
               IN IF calculateDistance(p, session.lockedLocation) > session.radius
                  THEN /\ sd'.status = "ERROR"
                       /\ sd'.isDistanceError
                       /\ "CAPTURING" \notin Range(ev'.trail)
                       /\ Cardinality(Awaiting(tasks', "getUserMedia"))
                             <= Cardinality(Awaiting(tasks, "getUserMedia"))
                       /\ ~sd'.cameraState.stream
                       /\ LedgersUnchanged
                  ELSE sd'.status = "CAPTURING" ]_vars

\* the location check has just refused a student outside the zone
C4_Witness ==
    /\ ev.op = "getGeoLocation" /\ ev.who \in Students /\ ev.live
    /\ ev.res = "You are not in the attendance zone."
    /\ sd.status = "ERROR"

----------------------------------------------------------------------------
(* C5 *)

LecturerLocationReads(ts) ==
    {i \in DOMAIN ts : ts[i].kind = "getGeoLocation" /\ Role(ts[i].who) = "LECTURER"}

\* C5: lecturer flow.  'Start Camera' goes from READY to CAPTURING without a
\* location read; a location read is started only by the step in which the
\* FaceMatchOracle answered true; the ledger grows only in the step that
\* follows that read; and when the distance to the faculty session's locked
\* location exceeds its radius the flow ends in ERROR with isDistanceError
\* set and the lecturer ledger unchanged.
C5_LecturerLocationAfterFaceMatch ==
    [][ /\ ev'.op = "handleStartCamera" =>
              /\ ld.status = "READY" /\ ld'.status = "CAPTURING"
              /\ ld'.lecturerLocation = ld.lecturerLocation
              /\ Cardinality(Awaiting(tasks', "getGeoLocation"))
                    <= Cardinality(Awaiting(tasks, "getGeoLocation"))
        /\ Cardinality(LecturerLocationReads(tasks')) > Cardinality(LecturerLocationReads(tasks)) =>
              /\ Resumed("compareFaces", "LECTURER")
              /\ ev'.res = "true"
              /\ lecturerAttendance' = lecturerAttendance
        /\ Len(lecturerAttendance') > Len(lecturerAttendance) =>
              /\ Resumed("getGeoLocation", "LECTURER")
              /\ ev'.res = "CONFIRMED"
        /\ (Resumed("getGeoLocation", "LECTURER") /\ ev'.live /\ ev'.res # "rejected") =>
              /\ facultySession # None
              /\ LET p == Val(ld'.lecturerLocation)
                     session == Val(facultySession)
                 IN calculateDistance(p, session.lockedLocation) > session.radius =>
                       /\ ld'.status = "ERROR"
                       /\ ld'.isDistanceError
                       /\ lecturerAttendance' = lecturerAttendance ]_vars

\* the location check has just refused a lecturer outside the zone
C5_Witness ==
    /\ ev.op = "getGeoLocation" /\ ev.who \in Lecturers /\ ev.live
    /\ ev.res = "zone"
    /\ ld.status = "ERROR" /\ ld.isDistanceError

----------------------------------------------------------------------------
(* C6 *)

\* C6: in both flows, when the FaceMatchOracle answers false the flow, which
\* waits in VERIFYING, is set to ERROR, SUBMITTING is not passed, no location read is
\* started, and the student ledger, the queue and the lecturer ledger are
\* the same after the step as before it.
C6_MismatchEndsInError ==
    [][ (ev'.op = "compareFaces" /\ ev'.res = "false") =>
            /\ LedgersUnchanged
            /\ "SUBMITTING" \notin Range(ev'.trail)
            /\ Cardinality(Awaiting(tasks', "getGeoLocation"))
                  <= Cardinality(Awaiting(tasks, "getGeoLocation"))
            /\ ev'.trail = <<"ERROR">>
            /\ ev'.live =>
                  IF ev'.who \in Students THEN sd'.status = "ERROR" ELSE ld'.status = "ERROR" ]_vars

\* a mismatch has just been reported to a student whose dashboard is open
C6_Witness ==
    /\ ev.op = "compareFaces" /\ ev.res = "false" /\ ev.live
    /\ ev.who \in Students /\ sd.status = "ERROR"

----------------------------------------------------------------------------
(* C7 *)

\* C7: in both flows, when the FaceMatchOracle throws the flow ends in ERROR
\* and nothing is appended to a ledger or to the queue; and SUBMITTING is
\* entered only by the step in which the oracle call of the attempt returned
\* true.
C7_OracleFailureIsClosed ==
    [][ /\ (ev'.op = "compareFaces" /\ ev'.res = "throw") =>
              /\ LedgersUnchanged
              /\ Cardinality(Awaiting(tasks', "getGeoLocation"))
                    <= Cardinality(Awaiting(tasks, "getGeoLocation"))
              /\ ev'.live =>
                    IF ev'.who \in Students THEN sd'.status = "ERROR" ELSE ld'.status = "ERROR"
        /\ ( \/ "SUBMITTING" \in Range(ev'.trail)
             \/ (sd'.status = "SUBMITTING" /\ sd.status # "SUBMITTING")
             \/ (ld'.status = "SUBMITTING" /\ ld.status # "SUBMITTING") ) =>
              /\ ev'.op = "compareFaces"
              /\ ev'.res = "true" ]_vars

\* the verification service has just failed for a lecturer whose dashboard
\* is open
C7_Witness ==
    /\ ev.op = "compareFaces" /\ ev.res = "throw" /\ ev.live
    /\ ev.who \in Lecturers /\ ld.status = "ERROR"

----------------------------------------------------------------------------
(* C8 *)

Last(q) == q[Len(q)]

\* C8: every record that enters the student ledger, the queue or the
\* lecturer ledger is added by a submit step at which all three checks hold:
\* the subject has no matching record for the live session, the recorded
\* position is within the radius of the live session's locked location, and
\* the FaceMatchOracle returned true for the attempt.
C8_RecordsOnlyAfterAllChecks ==
    [][ /\ Len(attendance') + Len(attendanceQueue') > Len(attendance) + Len(attendanceQueue) =>
              /\ Resumed("compareFaces", "STUDENT")
              /\ ev'.res = "true"
              /\ studentSession # None
              /\ LET r == IF attendance' # attendance THEN Last(attendance')
                          ELSE Last(attendanceQueue')
                     session == Val(studentSession)
                 IN /\ r.studentId = ev'.who
                    /\ ~\E i \in DOMAIN attendance :
                          StudentRecordMatches(attendance[i], r.studentId, session)
                    /\ calculateDistance(r.geo, session.lockedLocation) <= session.radius
        /\ Len(lecturerAttendance') > Len(lecturerAttendance) =>
              /\ Resumed("getGeoLocation", "LECTURER")
              /\ facultySession # None
              /\ LET r == Last(lecturerAttendance')
                     session == Val(facultySession)
                 IN /\ r.userId = ev'.who
                    /\ ~\E i \in DOMAIN lecturerAttendance :
                          LecturerRecordMatches(lecturerAttendance[i], r.userId, session)
                    /\ calculateDistance(r.geo, session.lockedLocation) <= session.radius ]_vars

----------------------------------------------------------------------------
(* C9 *)

\* C9: student flow, submit step after the oracle returned true.  Online:
\* the new record is appended at the end of the ledger, the queue is
\* unchanged and the flow is CONFIRMED.  Offline: the new record is appended
\* at the end of the queue, the ledger is unchanged and the flow is
\* OFFLINE_QUEUED; it is never ERROR.
C9_StudentSubmitBranches ==
    [][ (Resumed("compareFaces", "STUDENT") /\ ev'.res = "true") =>
            IF onLine
            THEN /\ Len(attendance') = Len(attendance) + 1
                 /\ SubSeq(attendance', 1, Len(attendance)) = attendance
                 /\ Last(attendance').studentId = ev'.who
                 /\ Last(attendance').timestamp = today
                 /\ attendanceQueue' = attendanceQueue
                 /\ ev'.trail = <<"SUBMITTING", "CONFIRMED">>
                 /\ ev'.live => sd'.status = "CONFIRMED"
            ELSE /\ Len(attendanceQueue') = Len(attendanceQueue) + 1
                 /\ SubSeq(attendanceQueue', 1, Len(attendanceQueue)) = attendanceQueue
                 /\ Last(attendanceQueue').studentId = ev'.who
                 /\ Last(attendanceQueue').timestamp = today
                 /\ attendance' = attendance
                 /\ ev'.trail = <<"SUBMITTING", "OFFLINE_QUEUED">>
                 /\ ev'.live => sd'.status = "OFFLINE_QUEUED" ]_vars

\* a student has just submitted offline, behind a record already queued
C9_Witness ==
    /\ ev.op = "compareFaces" /\ ev.res = "true" /\ ev.live /\ ev.who \in Students
    /\ ~onLine
    /\ sd.status = "OFFLINE_QUEUED"
    /\ Len(attendanceQueue) = 2

----------------------------------------------------------------------------
(* C10 *)

\* C10: in both flows the status becomes CONFIRMED only in a step that
\* appends the attempt's record to the corresponding ledger; a submit made
\* offline never yields CONFIRMED without the record being stored.
C10_ConfirmedOnlyWithRecord ==
    [][ /\ (sd'.status = "CONFIRMED" /\ sd.status # "CONFIRMED") =>
              /\ Len(attendance') = Len(attendance) + 1
              /\ Last(attendance').studentId = currentUser
        /\ (ld'.status = "CONFIRMED" /\ ld.status # "CONFIRMED") =>
              /\ Len(lecturerAttendance') = Len(lecturerAttendance) + 1
              /\ Last(lecturerAttendance').userId = currentUser ]_vars

----------------------------------------------------------------------------
(* C11 *)

\* the step just taken ran processQueue: at the mount of a StudentDashboard
\* or as the listener of the 'online' event
ProcessQueueRan == ev'.op \in {"processQueue", "online"}

\* C11: when processQueue runs online on a non-empty queue, the ledger
\* afterwards is the ledger before followed by exactly the queued records,
\* each once and in queue order, and the queue is empty.
C11_FlushRoundTrip ==
    [][ (ProcessQueueRan /\ onLine' /\ attendanceQueue # <<>>) =>
            /\ attendance' = attendance \o attendanceQueue
            /\ attendanceQueue' = <<>> ]_vars

\* a flush has just left two different records in the ledger
C11_Witness ==
    /\ ev.op \in {"processQueue", "online"} /\ ev.res = "flushed"
    /\ Len(attendance) = 2 /\ attendance[1] # attendance[2]
    /\ attendanceQueue = <<>>

----------------------------------------------------------------------------
(* C12 *)

----------------------------------------------------------------------------
(* C13 *)

\* C13: processQueue reads the queue, appends and clears it in one step, so
\* whatever the interleaving of 'online' events and mounts, a run of
\* processQueue neither creates nor duplicates a record (the number of
\* records in the ledger and the queue together is unchanged), a run that
\* appends leaves the queue empty, and a run over an empty queue leaves the
\* ledger as it is: no record is appended twice.
C13_FlushAppendsOnce ==
    [][ ProcessQueueRan =>
            /\ Len(attendance') + Len(attendanceQueue') = Len(attendance) + Len(attendanceQueue)
            /\ attendance' # attendance => attendanceQueue' = <<>>
            /\ attendanceQueue = <<>> => attendance' = attendance ]_vars

\* an 'online' event has just flushed the queue into a mounted dashboard
C13_Witness ==
    /\ ev.op = "online" /\ ev.res = "flushed"
    /\ attendanceQueue = <<>> /\ attendance # <<>>

----------------------------------------------------------------------------
(* C14 *)

\* C14: the offline queue changes in two ways only: a student submit made
\* offline appends one record at its end, and a run of processQueue empties
\* it after appending every queued record to the ledger.  Every other step
\* (logout, login of another role, page change, page reload, session
\* start and end) leaves it as it is.
C14_QueuedRecordsAreDurable ==
    [][ \/ attendanceQueue' = attendanceQueue
        \/ /\ Resumed("compareFaces", "STUDENT")
           /\ Len(attendanceQueue') = Len(attendanceQueue) + 1
           /\ SubSeq(attendanceQueue', 1, Len(attendanceQueue)) = attendanceQueue
        \/ /\ ProcessQueueRan
           /\ attendanceQueue' = <<>>
           /\ SubSeq(attendance', Len(attendance) + 1, Len(attendance')) = attendanceQueue ]_vars

\* the page has just been reloaded and the queue still holds a record
C14_Witness ==
    /\ ev.op = "reload"
    /\ attendanceQueue # <<>>
    /\ attendance = <<>> /\ currentUser = NULL

----------------------------------------------------------------------------
(* C15 *)

\* the step just taken resumed the suspended handler tasks[i]
TaskResumed(i) ==
    /\ tasks[i].kind \in {"compareFaces", "getGeoLocation"}
    /\ ev'.op = tasks[i].kind /\ ev'.who = tasks[i].who
    /\ LET rest == RemoveAt(tasks, i)
       IN \/ tasks' = rest
          \/ Len(tasks') = Len(rest) + 1 /\ SubSeq(tasks', 1, Len(rest)) = rest

\* the last await of a capture attempt, after which it records or gives up:
\* the face-match call of a student, the location read of a lecturer
LastAwait(t) == IF Role(t.who) = "STUDENT" THEN "compareFaces" ELSE "getGeoLocation"

\* the live session of the kind the handler of task t belongs to
LiveSession(t) == IF Role(t.who) = "STUDENT" THEN studentSession ELSE facultySession

\* C15: when a capture attempt resumes from its last await and the live
\* session of its kind is no longer the
\* session the attempt was started under, because a new one has replaced
\* it, the attempt appends no record to a ledger or to the queue and the
\* last status its handler sets is ERROR; so no record is committed under a
\* session other than the one its position was validated against.
C15_ReplacedSessionStopsAttempt ==
    [][ \A i \in DOMAIN tasks :
           ( /\ TaskResumed(i) /\ tasks[i].kind = LastAwait(tasks[i])
             /\ LiveSession(tasks[i]) # None
             /\ tasks[i].sess # LiveSession(tasks[i]) ) =>
               /\ LedgersUnchanged
               /\ Last(ev'.trail) = "ERROR" ]_vars

----------------------------------------------------------------------------
(* C16 *)

\* C16: when a capture attempt resumes from its last await after the
\* session it was started under has been ended (no session of its kind is live), it appends no
\* record to a ledger or to the queue and the last status its handler sets
\* is ERROR.
C16_EndedSessionStopsAttempt ==
    [][ \A i \in DOMAIN tasks :
           ( /\ TaskResumed(i) /\ tasks[i].kind = LastAwait(tasks[i])
             /\ tasks[i].sess # None
             /\ LiveSession(tasks[i]) = None ) =>
               /\ LedgersUnchanged
               /\ Last(ev'.trail) = "ERROR" ]_vars

----------------------------------------------------------------------------
(* C17 *)

\* C17: App holds one slot per kind of session, so at most one student
\* session and one faculty session are live.  A successful start leaves
\* exactly the new session in the slot of its kind (the one it replaces is
\* gone, none is kept pending), an end empties the slot, and a start or an
\* end of one kind leaves the session of the other kind unchanged.
C17_OneSessionPerKind ==
    [][ /\ Len(studentSession') <= 1 /\ Len(facultySession') <= 1
        /\ ev'.op = "handleStart" =>
              /\ facultySession' = facultySession
              /\ ev'.res \in {"started", "replaced"} =>
                    /\ Len(studentSession') = 1
                    /\ Val(studentSession').startTime = today
                    /\ Val(studentSession').lecturerId = currentUser
        /\ ev'.op = "handleEndStudentSession" =>
              /\ studentSession' = None
              /\ facultySession' = facultySession
        /\ ev'.op = "handleStartFacultySession" =>
              /\ studentSession' = studentSession
              /\ ev'.res \in {"started", "replaced"} =>
                    /\ Len(facultySession') = 1
                    /\ Val(facultySession').startTime = today
        /\ ev'.op = "handleEndFacultySession" =>
              /\ facultySession' = None
              /\ studentSession' = studentSession ]_vars

\* a student session has just replaced another while a faculty session is live
C17_Witness ==
    /\ ev.op = "handleStart" /\ ev.res = "replaced"
    /\ studentSession # None /\ facultySession # None

----------------------------------------------------------------------------
(* C18 *)

SessionHandlers ==
    {"handleStart", "handleStartFacultySession", "handleEndStudentSession",
     "handleEndFacultySession"}

\* C18: starting, replacing and ending a session, student or faculty, leave
\* the attendance ledger, the lecturer ledger and the offline queue
\* unchanged.
C18_SessionsLeaveLedgers ==
    [][ ev'.op \in SessionHandlers => LedgersUnchanged ]_vars

\* a faculty session has just been ended with records in both ledgers
C18_Witness ==
    /\ ev.op = "handleEndFacultySession"
    /\ lecturerAttendance # <<>> /\ attendance # <<>>

----------------------------------------------------------------------------
(* C19 *)

\* C19: a start that fails validation (no course or unit, radius below 10
\* or above 5000, no location; blank name or no location for a faculty
\* session) leaves the session of its kind and the page unchanged, and
\* every live session has a course/unit or a name, a locked center and a
\* radius greater than 0, a student session one from 10 to 5000.
C19_OnlyValidSessionsStart ==
    [][ /\ (ev'.op = "handleStart" /\ ev'.res = "rejected") =>
              studentSession' = studentSession /\ currentPage' = currentPage
        /\ (ev'.op = "handleStartFacultySession" /\ ev'.res = "rejected") =>
              facultySession' = facultySession /\ currentPage' = currentPage
        /\ studentSession' # None =>
              LET session == Val(studentSession')
              IN /\ session.course \in Courses /\ session.unit \in Units
                 /\ session.radius >= MinRadius /\ session.radius <= MaxRadius
                 /\ session.lockedLocation \in Positions
        /\ facultySession' # None =>
              LET session == Val(facultySession')
              IN /\ session.name # ""
                 /\ session.radius > 0
                 /\ session.lockedLocation \in Positions ]_vars

\* an invalid start has just been refused while a student session is live
C19_Witness ==
    /\ ev.op = "handleStart" /\ ev.res = "rejected"
    /\ studentSession # None

----------------------------------------------------------------------------
(* C20 *)

IsPrefix(s, t) == Len(s) <= Len(t) /\ SubSeq(t, 1, Len(s)) = s

\* C20: with several appends to the attendance ledger pending at once
\* (submissions of different students suspended at compareFaces, resumed in
\* any order, and a flush of the queue), every step keeps all the records
\* the ledger holds, in place: a confirmed submission adds exactly its own
\* record at the end and a flush adds exactly the queued records.
C20_ConcurrentAppendsKeepRecords ==
    [][ /\ IsPrefix(attendance, attendance')
        /\ (Resumed("compareFaces", "STUDENT") /\ Last(ev'.trail) = "CONFIRMED") =>
              /\ Len(attendance') = Len(attendance) + 1
              /\ Last(attendance').studentId = ev'.who
        /\ (ProcessQueueRan /\ ev'.res = "flushed") =>
              attendance' = attendance \o attendanceQueue ]_vars

\* a submission has just been appended to a ledger that holds records, while
\* the submission of another student, made earlier, is still suspended
C20_Witness ==
    /\ ev.op = "compareFaces" /\ ev.live /\ Last(ev.trail) = "CONFIRMED"
    /\ Len(attendance) >= 2
    /\ \E i \in DOMAIN tasks :
          /\ tasks[i].kind = "compareFaces" /\ tasks[i].orphan
          /\ tasks[i].who # ev.who

----------------------------------------------------------------------------
(* C21 *)

\* the (unit, day) pairs with a record in the course of student s, and the
\* ones with a record of s
OfferedTo(s) ==
    {k \in Units \X Days : \E i \in DOMAIN attendance :
        /\ attendance[i].courseId = StudentCourse(s)
        /\ attendance[i].unitId = k[1] /\ attendance[i].timestamp = k[2]}
AttendedBy(s) ==
    {k \in Units \X Days : \E i \in DOMAIN attendance :
        /\ attendance[i].studentId = s
        /\ attendance[i].unitId = k[1] /\ attendance[i].timestamp = k[2]}

\* the days with a lecturer record, and the ones with a record of l
LecturerDays == {d \in Days : \E i \in DOMAIN lecturerAttendance :
                    lecturerAttendance[i].timestamp = d}
DaysOf(l) == {d \in Days : \E i \in DOMAIN lecturerAttendance :
                 lecturerAttendance[i].timestamp = d /\ lecturerAttendance[i].userId = l}

\* q is a number from 0 to 100 and equals 100 * part / whole (0 when whole = 0)
IsPercentageOf(q, part, whole) ==
    /\ q.den > 0
    /\ 0 <= q.num /\ q.num <= 100 * q.den
    /\ IF whole = 0 THEN q.num = 0 ELSE q.num * whole = 100 * part * q.den

\* C21: in every state the percentage of every student and of every
\* lecturer is a defined number from 0 to 100: 0 when no (unit, day) pair
\* was offered in scope, otherwise 100 times the distinct pairs attended
\* over the distinct pairs offered.
C21_PercentageDefined ==
    /\ \A s \in Students :
          IsPercentageOf(StudentPercentage(attendance, s),
                         Cardinality(AttendedBy(s)), Cardinality(OfferedTo(s)))
    /\ \A l \in Lecturers :
          IsPercentageOf(LecturerPercentage(lecturerAttendance, l),
                         Cardinality(DaysOf(l)), Cardinality(LecturerDays))

\* a student attended one of the two sessions offered in the course: 50
C21_Witness ==
    \E s \in Students :
       /\ Cardinality(OfferedTo(s)) = 2 /\ Cardinality(AttendedBy(s)) = 1
       /\ StudentPercentage(attendance, s) = Quotient(100, 2)

----------------------------------------------------------------------------
(* C22 *)

\* the steps of a capture flow: its button handlers and their resumptions
FlowOps == CaptureHandlers \cup {"handleRetry", "getGeoLocation", "compareFaces", "startCamera"}

\* the step just taken belongs to the flow of the mounted dashboard of `role`
FlowStep(role) == ev'.op \in FlowOps /\ ev'.live /\ Role(ev'.who) = role

CommonTransitions ==
    {<<"CAPTURING", "VERIFYING">>, <<"VERIFYING", "SUBMITTING">>,
     <<"SUBMITTING", "CONFIRMED">>, <<"SUBMITTING", "OFFLINE_QUEUED">>,
     <<"CAPTURING", "ERROR">>, <<"VERIFYING", "ERROR">>, <<"SUBMITTING", "ERROR">>,
     <<"ERROR", "READY">>}
StudentTransitions ==
    CommonTransitions \cup {<<"READY", "CHECKING_LOCATION">>, <<"CHECKING_LOCATION", "CAPTURING">>,
                            <<"CHECKING_LOCATION", "ERROR">>}
LecturerTransitions == CommonTransitions \cup {<<"READY", "CAPTURING">>}

\* the statuses from `from` through the setStatus calls of `trail` change
\* only along `allowed`
ChangesAlong(from, trail, allowed) ==
    LET chain == <<from>> \o trail
    IN \A k \in 1..Len(trail) : chain[k] = chain[k + 1] \/ <<chain[k], chain[k + 1]>> \in allowed

\* C22: within one instance of a dashboard every change of status, each
\* setStatus call of a step taken one by one, is a transition of the table:
\* READY to CHECKING_LOCATION to CAPTURING (lecturer: READY to CAPTURING),
\* CAPTURING to VERIFYING to SUBMITTING to CONFIRMED or OFFLINE_QUEUED, to
\* ERROR from CHECKING_LOCATION, CAPTURING, VERIFYING or SUBMITTING only, and
\* ERROR to READY.  A status that changes otherwise is that of a new instance.
C22_StatusTransitions ==
    [][ /\ FlowStep("STUDENT") =>
              /\ ChangesAlong(sd.status, ev'.trail, StudentTransitions)
              /\ sd'.status = Last(<<sd.status>> \o ev'.trail)
        /\ FlowStep("LECTURER") =>
              /\ ChangesAlong(ld.status, ev'.trail, LecturerTransitions)
              /\ ld'.status = Last(<<ld.status>> \o ev'.trail)
        /\ (sd'.status # sd.status /\ ~FlowStep("STUDENT")) => sd' = FreshStudentDashboard
        /\ (ld'.status # ld.status /\ ~FlowStep("LECTURER")) => ld' = FreshLecturerDashboard
      ]_vars

----------------------------------------------------------------------------
(* C23 *)

TerminalStatuses == {"CONFIRMED", "OFFLINE_QUEUED"}

\* C23: once the status of a dashboard instance is CONFIRMED or
\* OFFLINE_QUEUED no step of its flow (handler, camera-error effect,
\* resumption of a suspended call) changes it; the status differs afterwards
\* only in a new instance, created with the initial state.
C23_TerminalStatusesStay ==
    [][ /\ (sd.status \in TerminalStatuses /\ sd'.status # sd.status) =>
              ~FlowStep("STUDENT") /\ sd' = FreshStudentDashboard
        /\ (ld.status \in TerminalStatuses /\ ld'.status # ld.status) =>
              ~FlowStep("LECTURER") /\ ld' = FreshLecturerDashboard ]_vars

----------------------------------------------------------------------------
(* C24 *)

\* C24: 'Try Again' leaves the dashboard in READY with nothing of the
\* failed attempt: no stored location of the subject, no error message,
\* isDistanceError false, and the camera off.
C24_RetryDiscardsAttempt ==
    [][ /\ (ev'.op = "handleRetry" /\ Role(ev'.who) = "STUDENT") =>
              /\ sd'.status = "READY"
              /\ sd'.studentLocation = None
              /\ sd'.errorMessage = NULL /\ ~sd'.isDistanceError
              /\ ~sd'.cameraState.isCameraOn /\ ~sd'.cameraState.stream
        /\ (ev'.op = "handleRetry" /\ Role(ev'.who) = "LECTURER") =>
              /\ ld'.status = "READY"
              /\ ld'.lecturerLocation = None
              /\ ld'.errorMessage = NULL /\ ~ld'.isDistanceError
              /\ ~ld'.cameraState.isCameraOn /\ ~ld'.cameraState.stream ]_vars

----------------------------------------------------------------------------
(* C25 *)

\* C25: whenever getUserMedia fails while the mounted dashboard is in
\* CAPTURING, the first time and every time after a retry, the dashboard is
\* in ERROR afterwards and its message is the camera error; it does not
\* stay in CAPTURING with the camera off.
C25_CameraFailureEndsInError ==
    [][ (ev'.op = "startCamera" /\ ev'.res = "error" /\ ev'.live) =>
           /\ (Role(ev'.who) = "STUDENT" /\ sd.status = "CAPTURING") =>
                 /\ sd'.status = "ERROR"
                 /\ sd'.errorMessage = sd'.cameraState.error
           /\ (Role(ev'.who) = "LECTURER" /\ ld.status = "CAPTURING") =>
                 /\ ld'.status = "ERROR"
                 /\ ld'.errorMessage = ld'.cameraState.error ]_vars

----------------------------------------------------------------------------
(* C26 *)

\* the suspended handlers of the mounted dashboard waiting on `kind`
LiveAwaiting(ts, kind) == {i \in DOMAIN ts : ts[i].kind = kind /\ ~ts[i].orphan}

GeoLocatorFailed(role) == Resumed("getGeoLocation", role) /\ ev'.res = "rejected" /\ ev'.live

\* the dashboard shows the failure of a location read
StudentLocationFailureShown ==
    sd.status = "ERROR" /\ sd.errorMessage = "Could not get your location."
LecturerLocationFailureShown ==
    ld.status = "ERROR" /\ ld.errorMessage = "An unknown error occurred."

\* C26: when getGeoLocation rejects, the flow of the mounted dashboard is in
\* ERROR with isDistanceError false, the step starts no camera (student)
\* and leaves the ledgers and the queue unchanged; and while the dashboard
\* shows that failure, before the subject retries, no further location read
\* is started for it.
C26_LocationFailureEndsInError ==
    [][ /\ GeoLocatorFailed("STUDENT") =>
              /\ sd'.status = "ERROR" /\ ~sd'.isDistanceError
              /\ ~sd'.cameraState.isCameraOn
              /\ Cardinality(Awaiting(tasks', "getUserMedia"))
                    <= Cardinality(Awaiting(tasks, "getUserMedia"))
              /\ LedgersUnchanged
        /\ GeoLocatorFailed("LECTURER") =>
              /\ ld'.status = "ERROR" /\ ~ld'.isDistanceError
              /\ LedgersUnchanged
        /\ StudentLocationFailureShown =>
              Cardinality(LiveAwaiting(tasks', "getGeoLocation"))
                 <= Cardinality(LiveAwaiting(tasks, "getGeoLocation"))
        /\ LecturerLocationFailureShown =>
              Cardinality(LiveAwaiting(tasks', "getGeoLocation"))
                 <= Cardinality(LiveAwaiting(tasks, "getGeoLocation")) ]_vars

----------------------------------------------------------------------------
(* C27 *)

----------------------------------------------------------------------------
(* C28 *)

\* the position stored in a student record lies within the zone stored in it
RecordInZone(r) == calculateDistance(r.geo, r.sessionLocation) <= r.sessionRadius

\* C28: every student record of the ledger and of the offline queue holds a
\* position within the radius of the session location the record holds.
C28_StoredPositionWasValidated ==
    /\ \A i \in DOMAIN attendance : RecordInZone(attendance[i])
    /\ \A i \in DOMAIN attendanceQueue : RecordInZone(attendanceQueue[i])

\* a record taken on the boundary of the zone is stored, another is queued
C28_Witness ==
    /\ \E i \in DOMAIN attendance :
          calculateDistance(attendance[i].geo, attendance[i].sessionLocation)
             = attendance[i].sessionRadius
    /\ attendanceQueue # <<>>

----------------------------------------------------------------------------
(* C29 *)

\* the failure shown by a dashboard is a geofence violation
GeofenceFailureShown(d) ==
    d.status = "ERROR" /\ d.errorMessage = "You are not in the attendance zone."

\* C29: in both flows isDistanceError is set only in ERROR with a geofence
\* violation as the failure shown; after any other failure, in READY and in
\* every other status the flag is false.
C29_DistanceFlagMeansGeofence ==
    /\ sd.isDistanceError => GeofenceFailureShown(sd)
    /\ ld.isDistanceError => GeofenceFailureShown(ld)

----------------------------------------------------------------------------
(* C30 *)

\* C30: no camera stream started by useCamera stays active once the capture
\* flow is over: a dashboard's unmount releases the stream it holds, and
\* after a retry from ERROR neither dashboard holds a stream.
C30_CameraReleased ==
    [][/\ ev'.op = "unmount" => ev'.res = "released"
       /\ ev'.op = "handleRetry" =>
              ~sd'.cameraState.stream /\ ~ld'.cameraState.stream]_vars

====
